---- MODULE Spec2Model ----
(***************************************************************************)
(* Word-alignment corpus preprocessing (preprocessing.py) and alignment    *)
(* metrics (metrics.py).  Every function of the two files is pure, so each *)
(* is an operator computed the way the code computes it, and each          *)
(* specification draws the arguments of one call from a bounded set        *)
(* (Init) and applies the functions to them (one action per function).     *)
(***************************************************************************)
EXTENDS Integers, Sequences, FiniteSets, TLC

VARIABLES args, pc, ret

vars == <<args, pc, ret>>

None == [kind |-> "None"]

\* a Python int where None may stand instead
IntVal(n) == [kind |-> "int", val |-> n]

(***************************************************************************)
(* Bounds of the model.                                                    *)
(***************************************************************************)
\* metrics: sentences per call, entries of one predicted alignment list
MaxRefs == 2
MaxPred == 2
\* vocabulary: sentence pairs per corpus, tokens per sentence of the varied
\* language, largest frequency cutoff
MaxPairs == 2
MaxLen == 2
MaxCutoff == 2
\* tokenizer: sentence pairs per call, tokens per sentence of the varied
\* language
MaxTokPairs == 2
MaxTokLen == 2
\* parser: blocks per corpus, characters of the varied alignment field
MaxBlocks == 2
MaxText == 5

(***************************************************************************)
(* Generic helpers standing for Python built-ins.                          *)
(***************************************************************************)
SeqsUpTo(S, n) == UNION {[1..k -> S] : k \in 0..n}

\* set(iterable) on a list: the distinct elements
set(s) == {s[i] : i \in DOMAIN s}

\* len(x) of a set
len(S) == Cardinality(S)

Min(a, b) == IF a <= b THEN a ELSE b

\* zip(a, b): pairs up to the shorter argument
zip(a, b) == [i \in 1..Min(Len(a), Len(b)) |-> <<a[i], b[i]>>]

\* a Python float that is the exact quotient num / den of two ints
Frac(n, d) == [kind |-> "float", num |-> n, den |-> d]

ZeroDivisionError == [kind |-> "ZeroDivisionError"]

\* mutation of TrueDiv: a zero divisor silently yields 0.0
TrueDivSilent(a, b) == IF b = 0 THEN Frac(0, 1) ELSE Frac(a, b)

\* a / b on ints: raises ZeroDivisionError when b = 0
TrueDiv(a, b) == IF b = 0 THEN ZeroDivisionError ELSE Frac(a, b)

\* 1 - q; an exception raised while evaluating q propagates
OneMinus(q) == IF q.kind = "float" THEN Frac(q.den - q.num, q.den) ELSE q

(***************************************************************************)
(* metrics.py                                                              *)
(***************************************************************************)
\* alignment pairs (source_pos, target_pos), positions numbered from 1
Pairs == {<<1, 1>>, <<2, 2>>}

LabeledAlignment(sure, possible) == [sure |-> sure, possible |-> possible]

\* gold alignments: sure and possible are lists of pairs; sure need not be
\* contained in possible
Golds ==
    { LabeledAlignment(<<>>, <<>>),
      LabeledAlignment(<< <<1, 1>> >>, << <<1, 1>>, <<2, 2>> >>),
      LabeledAlignment(<< <<1, 1>> >>, << <<1, 1>> >>),
      LabeledAlignment(<< <<1, 1>> >>, << <<2, 2>> >>),
      LabeledAlignment(<<>>, << <<1, 1>> >>),
      LabeledAlignment(<< <<2, 2>>, <<1, 1>>, <<2, 2>> >>, <<>>) }

Predictions == SeqsUpTo(Pairs, MaxPred)

\* mutation of compute_precision: sure is not unioned into possible
RECURSIVE precision_loop_nounion(_, _, _)
precision_loop_nounion(z, numerator, denominator) ==
    IF z = <<>> THEN <<numerator, denominator>>
    ELSE LET la == Head(z)[1]
             predicted_al == Head(z)[2]
             set_possible == set(la.possible)
             set_predicted == set(predicted_al)
         IN  precision_loop_nounion(Tail(z),
                 numerator + len(set_possible \cap set_predicted),
                 denominator + len(set_predicted))

compute_precision_nounion(reference, predicted) ==
    precision_loop_nounion(zip(reference, predicted), 0, 0)

\* mutation of compute_precision: predicted is not deduplicated in the
\* numerator
RECURSIVE precision_loop_dups(_, _, _)
precision_loop_dups(z, numerator, denominator) ==
    IF z = <<>> THEN <<numerator, denominator>>
    ELSE LET la == Head(z)[1]
             predicted_al == Head(z)[2]
             set_possible == set(la.possible) \cup set(la.sure)
         IN  precision_loop_dups(Tail(z),
                 numerator + Cardinality({i \in DOMAIN predicted_al :
                                            predicted_al[i] \in set_possible}),
                 denominator + len(set(predicted_al)))

compute_precision_dups(reference, predicted) ==
    precision_loop_dups(zip(reference, predicted), 0, 0)

\* the for loop of compute_precision over zip(reference, predicted)
RECURSIVE precision_loop(_, _, _)
precision_loop(z, numerator, denominator) ==
    IF z = <<>> THEN <<numerator, denominator>>
    ELSE LET la == Head(z)[1]
             predicted_al == Head(z)[2]
             set_sure == set(la.sure)
             set_possible == set(la.possible) \cup set_sure
             set_predicted == set(predicted_al)
         IN  precision_loop(Tail(z),
                 numerator + len(set_possible \cap set_predicted),
                 denominator + len(set_predicted))

compute_precision(reference, predicted) ==
    precision_loop(zip(reference, predicted), 0, 0)

\* mutation of compute_recall: the gold set used is possible, not sure
RECURSIVE recall_loop_possible(_, _, _)
recall_loop_possible(z, numerator, denominator) ==
    IF z = <<>> THEN <<numerator, denominator>>
    ELSE LET la == Head(z)[1]
             predicted_al == Head(z)[2]
             set_sure == set(la.possible)
             set_predicted == set(predicted_al)
         IN  recall_loop_possible(Tail(z),
                 numerator + len(set_predicted \cap set_sure),
                 denominator + len(set_sure))

compute_recall_possible(reference, predicted) ==
    recall_loop_possible(zip(reference, predicted), 0, 0)

\* the for loop of compute_recall over zip(reference, predicted)
RECURSIVE recall_loop(_, _, _)
recall_loop(z, numerator, denominator) ==
    IF z = <<>> THEN <<numerator, denominator>>
    ELSE LET la == Head(z)[1]
             predicted_al == Head(z)[2]
             set_sure == set(la.sure)
             set_predicted == set(predicted_al)
         IN  recall_loop(Tail(z),
                 numerator + len(set_predicted \cap set_sure),
                 denominator + len(set_sure))

compute_recall(reference, predicted) ==
    recall_loop(zip(reference, predicted), 0, 0)

\* mutation of compute_aer: combines the already-divided ratios,
\* 1 - (precision + recall) / 2
compute_aer_ratios(reference, predicted) ==
    LET pr == compute_precision(reference, predicted)
        re == compute_recall(reference, predicted)
    IN  IF pr[2] = 0 \/ re[2] = 0 THEN ZeroDivisionError
        ELSE OneMinus(TrueDiv(pr[1] * re[2] + re[1] * pr[2], 2 * pr[2] * re[2]))

compute_aer(reference, predicted) ==
    LET pr == compute_precision(reference, predicted)
        re == compute_recall(reference, predicted)
        pr_num == pr[1]
        pr_den == pr[2]
        re_num == re[1]
        re_den == re[2]
    IN  OneMinus(TrueDiv(pr_num + re_num, pr_den + re_den))

\* arguments of one call: equal-length lists of gold and predicted alignments
InitMetrics ==
    /\ \E n \in 0..MaxRefs :
         \E r \in [1..n -> Golds], p \in [1..n -> Predictions] :
            args = [reference |-> r, predicted |-> p]
    /\ pc = "start"
    /\ ret = None

CallComputePrecision ==
    /\ pc = "start"
    /\ pc' = "compute_precision"
    /\ ret' = compute_precision(args.reference, args.predicted)
    /\ UNCHANGED args

CallComputeRecall ==
    /\ pc = "start"
    /\ pc' = "compute_recall"
    /\ ret' = compute_recall(args.reference, args.predicted)
    /\ UNCHANGED args

CallComputeAer ==
    /\ pc = "start"
    /\ pc' = "compute_aer"
    /\ ret' = compute_aer(args.reference, args.predicted)
    /\ UNCHANGED args

NextMetrics ==
    \/ CallComputePrecision
    \/ CallComputeRecall
    \/ CallComputeAer

SpecMetrics == InitMetrics /\ [][NextMetrics]_vars

(***************************************************************************)
(* Properties of metrics.py, stated over the arguments of the call.        *)
(***************************************************************************)
RECURSIVE SeqSum(_)
SeqSum(s) == IF s = <<>> THEN 0 ELSE Head(s) + SeqSum(Tail(s))

HasPair(list, q) == \E k \in DOMAIN list : list[k] = q

DistinctIn(list) == {q \in Pairs : HasPair(list, q)}

HasDuplicate(list) == \E j, k \in DOMAIN list : j # k /\ list[j] = list[k]

Sentences == 1..Len(args.reference)

\* per-sentence counts the claims speak of, summed over the sentences
PredictedAndGold ==
    SeqSum([i \in Sentences |->
        Cardinality({q \in DistinctIn(args.predicted[i]) :
                        \/ HasPair(args.reference[i].possible, q)
                        \/ HasPair(args.reference[i].sure, q)})])

PredictedTotal ==
    SeqSum([i \in Sentences |-> Cardinality(DistinctIn(args.predicted[i]))])

PredictedAndSure ==
    SeqSum([i \in Sentences |->
        Cardinality({q \in DistinctIn(args.predicted[i]) :
                        HasPair(args.reference[i].sure, q)})])

SureTotal ==
    SeqSum([i \in Sentences |-> Cardinality(DistinctIn(args.reference[i].sure))])

AerNum == PredictedAndGold + PredictedAndSure

AerDen == PredictedTotal + SureTotal

\* C1: compute_precision returns (N, D): N sums, per sentence, the distinct
\* predicted pairs that are in possible or in sure of the same sentence, D
\* sums the distinct predicted pairs; also when sure is not contained in
\* possible and when predicted repeats a pair.
C1_PrecisionCounts ==
    pc = "compute_precision" => ret = <<PredictedAndGold, PredictedTotal>>

\* a call with two sentences, one of which predicts a pair twice that is
\* sure but not possible
C1_Witness ==
    /\ pc = "compute_precision"
    /\ Len(args.reference) = 2
    /\ \E i \in Sentences :
          /\ HasDuplicate(args.predicted[i])
          /\ \E q \in DistinctIn(args.predicted[i]) :
                /\ HasPair(args.reference[i].sure, q)
                /\ ~HasPair(args.reference[i].possible, q)
    /\ ret[1] > 0
    /\ ret[1] < ret[2]

\* C2: compute_recall returns (N, D): N sums, per sentence, the distinct
\* pairs both predicted and sure in the same sentence, D sums the distinct
\* sure pairs; possible plays no part.
C2_RecallCounts ==
    pc = "compute_recall" => ret = <<PredictedAndSure, SureTotal>>

\* a call where a predicted pair is possible but not sure, and another one
\* is sure
C2_Witness ==
    /\ pc = "compute_recall"
    /\ \E i \in Sentences :
          \E q \in DistinctIn(args.predicted[i]) :
             /\ HasPair(args.reference[i].possible, q)
             /\ ~HasPair(args.reference[i].sure, q)
    /\ ret[1] > 0
    /\ ret[1] < ret[2]

AerScenarioPerfect ==
    [reference |-> << LabeledAlignment(<< <<1, 1>> >>, << <<1, 1>>, <<2, 2>> >>) >>,
     predicted |-> << << <<1, 1>>, <<2, 2>> >> >>]

AerScenarioWrong ==
    [reference |-> << LabeledAlignment(<< <<1, 1>> >>, << <<1, 1>> >>) >>,
     predicted |-> << << <<2, 2>> >> >>]

\* C3: when the combined denominator is positive compute_aer returns
\* 1 - (pn + rn) / (pd + rd) from the raw sums: 0.0 on the first scenario
\* of the specification, 1.0 on the second.
C3_AerFromRawSums ==
    (pc = "compute_aer" /\ AerDen > 0) =>
        /\ ret.kind = "float"
        /\ ret.den > 0
        /\ ret.num * AerDen = (AerDen - AerNum) * ret.den
        /\ args = AerScenarioPerfect => ret.num = 0
        /\ args = AerScenarioWrong => ret.num = ret.den

\* a call whose precision and recall denominators differ, so that the mean
\* of the two ratios is another number than the returned value
C3_Witness ==
    /\ pc = "compute_aer"
    /\ ret.kind = "float"
    /\ PredictedTotal > 0
    /\ SureTotal > 0
    /\ PredictedTotal # SureTotal
    /\ ret.num * (2 * PredictedTotal * SureTotal)
         # ret.den * (2 * PredictedTotal * SureTotal
                        - (PredictedAndGold * SureTotal
                             + PredictedAndSure * PredictedTotal))

\* C4: numerators lie between 0 and their denominators, and the value of
\* compute_aer, when the combined denominator is nonzero, lies in [0, 1].
C4_Ranges ==
    /\ pc \in {"compute_precision", "compute_recall"} =>
          (0 <= ret[1] /\ ret[1] <= ret[2])
    /\ (pc = "compute_aer" /\ AerDen # 0) =>
          (ret.kind = "float" /\ ret.den > 0 /\ 0 <= ret.num /\ ret.num <= ret.den)

\* an AER strictly inside (0, 1) on gold data where sure is not contained in
\* possible and a prediction repeats a pair
C4_Witness ==
    /\ pc = "compute_aer"
    /\ ret.kind = "float"
    /\ 0 < ret.num
    /\ ret.num < ret.den
    /\ \E i \in Sentences :
          /\ HasDuplicate(args.predicted[i])
          /\ \E q \in Pairs : /\ HasPair(args.reference[i].sure, q)
                              /\ ~HasPair(args.reference[i].possible, q)

\* C5: with a combined denominator of 0 compute_aer ends in an error, never
\* in a number.
C5_ZeroDenominatorRaises ==
    (pc = "compute_aer" /\ AerDen = 0) => ret = ZeroDivisionError

\* a non-empty call in which no sentence has a predicted or a sure pair
C5_Witness ==
    /\ pc = "compute_aer"
    /\ Len(args.reference) > 0
    /\ \E i \in Sentences : args.reference[i].possible # <<>>
    /\ AerDen = 0
    /\ ret = ZeroDivisionError

(***************************************************************************)
(* preprocessing.py: get_token_to_index                                    *)
(***************************************************************************)
Tokens == {"a", "b"}

\* the sentences of the language that is not varied
OtherSentences == {<<>>, <<"b", "a">>}

SentencePair(source, target) == [source |-> source, target |-> target]

\* A dict (and a Counter) keeps its items in insertion order: a sequence of
\* <<key, value>> items with distinct keys.
Keys(d) == {d[i][1] : i \in DOMAIN d}

Get(d, k) == d[CHOOSE i \in DOMAIN d : d[i][1] = k][2]

\* d[k] = v: replaces the value of a present key, appends a new key
SetItem(d, k, v) ==
    IF k \in Keys(d)
    THEN [i \in DOMAIN d |-> IF d[i][1] = k THEN <<k, v>> ELSE d[i]]
    ELSE Append(d, <<k, v>>)

\* mutation of scan_words: the counter advances on every word, new or not
RECURSIVE scan_words_every(_, _, _)
scan_words_every(words, dict, counter) ==
    IF words = <<>> THEN <<dict, counter>>
    ELSE LET word == Head(words)
         IN  IF word \notin Keys(dict)
             THEN scan_words_every(Tail(words), SetItem(dict, word, counter), counter + 1)
             ELSE scan_words_every(Tail(words), dict, counter + 1)

\* for word in sp.source (sp.target): a word not yet in the dict gets the
\* counter's value, and the counter advances
RECURSIVE scan_words(_, _, _)
scan_words(words, dict, counter) ==
    IF words = <<>> THEN <<dict, counter>>
    ELSE LET word == Head(words)
         IN  IF word \notin Keys(dict)
             THEN scan_words(Tail(words), SetItem(dict, word, counter), counter + 1)
             ELSE scan_words(Tail(words), dict, counter)

\* the loop over sentence_pairs when freq_cutoff is None
RECURSIVE unbounded_loop(_, _, _, _, _)
unbounded_loop(pairs, source_dict, target_dict, source_counter, target_counter) ==
    IF pairs = <<>> THEN <<source_dict, target_dict>>
    ELSE LET sp == Head(pairs)
             s == scan_words(sp.source, source_dict, source_counter)
             t == scan_words(sp.target, target_dict, target_counter)
         IN  unbounded_loop(Tail(pairs), s[1], t[1], s[2], t[2])

\* Counter(iterable): counts in order of first occurrence
RECURSIVE CounterOf(_, _)
CounterOf(words, c) ==
    IF words = <<>> THEN c
    ELSE LET w == Head(words)
         IN  CounterOf(Tail(words),
                       SetItem(c, w, (IF w \in Keys(c) THEN Get(c, w) ELSE 0) + 1))

\* Counter.__iadd__: self[elem] += count for the items of other in order,
\* then only positive counts are kept
RECURSIVE CounterAddItems(_, _)
CounterAddItems(self, other) ==
    IF other = <<>> THEN self
    ELSE LET elem == Head(other)[1]
             count == Head(other)[2]
         IN  CounterAddItems(
                 SetItem(self, elem,
                         (IF elem \in Keys(self) THEN Get(self, elem) ELSE 0) + count),
                 Tail(other))

CounterIAdd(self, other) ==
    SelectSeq(CounterAddItems(self, other), LAMBDA item : item[2] > 0)

\* places item behind every item whose count is at least as large
RECURSIVE InsertDesc(_, _)
InsertDesc(sorted, item) ==
    IF sorted = <<>> THEN <<item>>
    ELSE IF Head(sorted)[2] >= item[2]
         THEN <<Head(sorted)>> \o InsertDesc(Tail(sorted), item)
         ELSE <<item>> \o sorted

\* places item before every item whose count is not larger
RECURSIVE InsertDescTiesFirst(_, _)
InsertDescTiesFirst(sorted, item) ==
    IF sorted = <<>> THEN <<item>>
    ELSE IF Head(sorted)[2] > item[2]
         THEN <<Head(sorted)>> \o InsertDescTiesFirst(Tail(sorted), item)
         ELSE <<item>> \o sorted

RECURSIVE SortTiesReversed(_, _)
SortTiesReversed(items, sorted) ==
    IF items = <<>> THEN sorted
    ELSE SortTiesReversed(Tail(items), InsertDescTiesFirst(sorted, Head(items)))

\* mutation of most_common: equal counts come out in reverse insertion
\* order (an ascending sort that is reversed afterwards)
most_common_reversed(counter) == SortTiesReversed(counter, <<>>)

RECURSIVE SortDescStable(_, _)
SortDescStable(items, sorted) ==
    IF items = <<>> THEN sorted
    ELSE SortDescStable(Tail(items), InsertDesc(sorted, Head(items)))

\* Counter.most_common(): sorted(items, key = count, reverse = True); the
\* sort is stable, so equal counts keep their insertion order
most_common(counter) == SortDescStable(counter, <<>>)

\* mutation of take_most_common: the loop stops one item late
RECURSIVE take_most_common_late(_, _, _, _)
take_most_common_late(items, index, freq_cutoff, dict) ==
    IF items = <<>> \/ index > freq_cutoff THEN dict
    ELSE take_most_common_late(Tail(items), index + 1, freq_cutoff,
                               SetItem(dict, Head(items)[1], index))

\* for index, token in enumerate(most_common): break at index >= freq_cutoff,
\* else dict[token[0]] = index
RECURSIVE take_most_common(_, _, _, _)
take_most_common(items, index, freq_cutoff, dict) ==
    IF items = <<>> \/ index >= freq_cutoff THEN dict
    ELSE take_most_common(Tail(items), index + 1, freq_cutoff,
                          SetItem(dict, Head(items)[1], index))

\* the counting loop over sentence_pairs when freq_cutoff is given
RECURSIVE count_loop(_, _, _)
count_loop(pairs, counter_source, counter_target) ==
    IF pairs = <<>> THEN <<counter_source, counter_target>>
    ELSE LET sp == Head(pairs)
         IN  count_loop(Tail(pairs),
                        CounterIAdd(counter_source, CounterOf(sp.source, <<>>)),
                        CounterIAdd(counter_target, CounterOf(sp.target, <<>>)))

get_token_to_index(sentence_pairs, freq_cutoff) ==
    IF freq_cutoff.kind = "None"
    THEN unbounded_loop(sentence_pairs, <<>>, <<>>, 0, 0)
    ELSE LET counters == count_loop(sentence_pairs, <<>>, <<>>)
             most_common_source == most_common(counters[1])
             most_common_target == most_common(counters[2])
         IN  << take_most_common(most_common_source, 0, freq_cutoff.val, <<>>),
                take_most_common(most_common_target, 0, freq_cutoff.val, <<>>) >>

\* a corpus of up to MaxPairs sentence pairs; either language may be the
\* varied one; the cutoff is absent or 0..MaxCutoff
InitVocab ==
    /\ \E n \in 0..MaxPairs :
         \E long \in [1..n -> SeqsUpTo(Tokens, MaxLen)],
            short \in [1..n -> OtherSentences],
            swap \in BOOLEAN,
            k \in {None} \cup {IntVal(c) : c \in 0..MaxCutoff} :
            args = [sentence_pairs |->
                        [i \in 1..n |-> IF swap
                                        THEN SentencePair(short[i], long[i])
                                        ELSE SentencePair(long[i], short[i])],
                    freq_cutoff |-> k]
    /\ pc = "start"
    /\ ret = None

CallGetTokenToIndex ==
    /\ pc = "start"
    /\ pc' = "get_token_to_index"
    /\ ret' = get_token_to_index(args.sentence_pairs, args.freq_cutoff)
    /\ UNCHANGED args

NextVocab == CallGetTokenToIndex

SpecVocab == InitVocab /\ [][NextVocab]_vars

(***************************************************************************)
(* Properties of get_token_to_index, stated over the corpus.               *)
(***************************************************************************)
RECURSIVE Flatten(_)
Flatten(lists) == IF lists = <<>> THEN <<>> ELSE Head(lists) \o Flatten(Tail(lists))

\* the tokens of one language in scan order: sentence by sentence, left to
\* right
SourceScan ==
    Flatten([i \in DOMAIN args.sentence_pairs |-> args.sentence_pairs[i].source])

TargetScan ==
    Flatten([i \in DOMAIN args.sentence_pairs |-> args.sentence_pairs[i].target])

Occurring(scan) == {scan[i] : i \in DOMAIN scan}

Occurrences(t, scan) == Cardinality({i \in DOMAIN scan : scan[i] = t})

FirstOccurrence(t, scan) ==
    CHOOSE i \in DOMAIN scan : scan[i] = t /\ \A j \in 1..(i - 1) : scan[j] # t

EarlierTokens(t, scan) ==
    {u \in Occurring(scan) : FirstOccurrence(u, scan) < FirstOccurrence(t, scan)}

\* tokens ranked before t: more frequent, or as frequent and seen earlier
RankedBefore(t, scan) ==
    {u \in Occurring(scan) :
        \/ Occurrences(u, scan) > Occurrences(t, scan)
        \/ /\ Occurrences(u, scan) = Occurrences(t, scan)
           /\ FirstOccurrence(u, scan) < FirstOccurrence(t, scan)}

Returned == pc = "get_token_to_index"

Bounded == args.freq_cutoff.kind = "int"

Indices(d) == {d[i][2] : i \in DOMAIN d}

Injective(d) ==
    \A i, j \in DOMAIN d : i # j => (d[i][1] # d[j][1] /\ d[i][2] # d[j][2])

ContiguousVocabulary(d) ==
    /\ Injective(d)
    /\ Indices(d) = 0..(Len(d) - 1)
    /\ Bounded => Len(d) <= args.freq_cutoff.val

\* C7: with the cutoff absent or any K >= 0, each returned vocabulary is
\* injective with indices exactly 0..size-1, and has at most K entries in
\* bounded mode.
C7_VocabularyContiguous ==
    Returned => (ContiguousVocabulary(ret[1]) /\ ContiguousVocabulary(ret[2]))

\* a cutoff that cuts the source vocabulary short and leaves it non-empty
C7_Witness ==
    /\ Returned
    /\ Bounded
    /\ args.freq_cutoff.val = 1
    /\ Cardinality(Occurring(SourceScan)) = 2
    /\ Len(ret[1]) = 1
    /\ Len(ret[2]) = 1

TopRanked(d, scan) ==
    /\ \A t \in Tokens :
          /\ t \in Keys(d) <=>
                (t \in Occurring(scan)
                   /\ Cardinality(RankedBefore(t, scan)) < args.freq_cutoff.val)
          /\ t \in Keys(d) => Get(d, t) = Cardinality(RankedBefore(t, scan))
    /\ Len(d) = Min(args.freq_cutoff.val, Cardinality(Occurring(scan)))
    /\ \A t \in Keys(d) : \A u \in Occurring(scan) \ Keys(d) :
          Occurrences(t, scan) >= Occurrences(u, scan)

\* C8: in bounded mode each vocabulary holds exactly the first
\* min(K, distinct tokens) tokens ranked by descending count, equal counts
\* by first occurrence, each mapped to its rank from 0.
C8_TopKByFrequency ==
    (Returned /\ Bounded) => (TopRanked(ret[1], SourceScan) /\ TopRanked(ret[2], TargetScan))

\* the kept token is seen later but more often than the one left out
C8_Witness ==
    /\ Returned
    /\ Bounded
    /\ \E t \in Keys(ret[1]) : \E u \in Occurring(SourceScan) \ Keys(ret[1]) :
          /\ FirstOccurrence(u, SourceScan) < FirstOccurrence(t, SourceScan)
          /\ Occurrences(t, SourceScan) > Occurrences(u, SourceScan)

FirstOccurrenceOrder(d, scan) ==
    /\ Keys(d) = Occurring(scan)
    /\ Len(d) = Cardinality(Occurring(scan))
    /\ \A t \in Keys(d) : Get(d, t) = Cardinality(EarlierTokens(t, scan))

\* C9: in unbounded mode every distinct token is in its language's
\* vocabulary, with the number of distinct tokens first seen earlier in that
\* language's scan as index, whatever the counts and the other language.
C9_FirstOccurrenceIndices ==
    (Returned /\ ~Bounded) =>
        (FirstOccurrenceOrder(ret[1], SourceScan) /\ FirstOccurrenceOrder(ret[2], TargetScan))

\* the token with index 1 occurs more often than the token with index 0,
\* and occurs in the other language too
C9_Witness ==
    /\ Returned
    /\ ~Bounded
    /\ Len(ret[2]) > 0
    /\ \E t, u \in Keys(ret[1]) :
          /\ Get(ret[1], u) = 0
          /\ Get(ret[1], t) = 1
          /\ Occurrences(t, SourceScan) > Occurrences(u, SourceScan)
          /\ t \in Keys(ret[2])

(***************************************************************************)
(* preprocessing.py: tokenize_sents                                        *)
(***************************************************************************)
TokenizedSentencePair(source_tokens, target_tokens) ==
    [source_tokens |-> source_tokens, target_tokens |-> target_tokens]

\* mutation of map_words: an unknown word is skipped and the pair goes on
RECURSIVE map_words_skip(_, _, _)
map_words_skip(words, dict, arr) ==
    IF words = <<>> THEN [flag |-> FALSE, arr |-> arr]
    ELSE LET word == Head(words)
         IN  IF word \in Keys(dict)
             THEN map_words_skip(Tail(words), dict, Append(arr, Get(dict, word)))
             ELSE map_words_skip(Tail(words), dict, arr)

\* for word in sp.source (sp.target): np.append the index of a known word;
\* an unknown word sets the flag and breaks
RECURSIVE map_words(_, _, _)
map_words(words, dict, arr) ==
    IF words = <<>> THEN [flag |-> FALSE, arr |-> arr]
    ELSE LET word == Head(words)
         IN  IF word \in Keys(dict)
             THEN map_words(Tail(words), dict, Append(arr, Get(dict, word)))
             ELSE [flag |-> TRUE, arr |-> arr]

\* the loop over sentence_pairs; a raised flag skips the pair (continue)
RECURSIVE tokenize_loop(_, _, _, _)
tokenize_loop(pairs, source_dict, target_dict, res_list) ==
    IF pairs = <<>> THEN res_list
    ELSE LET sp == Head(pairs)
             src == map_words(sp.source, source_dict, <<>>)
             tgt == map_words(sp.target, target_dict, <<>>)
         IN  IF src.flag
             THEN tokenize_loop(Tail(pairs), source_dict, target_dict, res_list)
             ELSE IF tgt.flag
                  THEN tokenize_loop(Tail(pairs), source_dict, target_dict, res_list)
                  ELSE tokenize_loop(Tail(pairs), source_dict, target_dict,
                           Append(res_list, TokenizedSentencePair(src.arr, tgt.arr)))

tokenize_sents(sentence_pairs, source_dict, target_dict) ==
    tokenize_loop(sentence_pairs, source_dict, target_dict, <<>>)

\* the sentences of the language that is not varied
OtherTokSentences == {<<>>, <<"c">>}

\* token-to-index mappings handed to the tokenizer
Vocabularies ==
    { <<>>,
      << <<"a", 0>>, <<"c", 0>> >>,
      << <<"b", 0>> >>,
      << <<"c", 0>>, <<"a", 1>>, <<"b", 2>> >> }

InitTokenize ==
    /\ \E n \in 0..MaxTokPairs :
         \E long \in [1..n -> SeqsUpTo(Tokens, MaxTokLen)],
            short \in [1..n -> OtherTokSentences],
            swap \in BOOLEAN,
            sd \in Vocabularies, td \in Vocabularies :
            args = [sentence_pairs |->
                        [i \in 1..n |-> IF swap
                                        THEN SentencePair(short[i], long[i])
                                        ELSE SentencePair(long[i], short[i])],
                    source_dict |-> sd,
                    target_dict |-> td]
    /\ pc = "start"
    /\ ret = None

CallTokenizeSents ==
    /\ pc = "start"
    /\ pc' = "tokenize_sents"
    /\ ret' = tokenize_sents(args.sentence_pairs, args.source_dict, args.target_dict)
    /\ UNCHANGED args

NextTokenize == CallTokenizeSents

SpecTokenize == InitTokenize /\ [][NextTokenize]_vars

(***************************************************************************)
(* Properties of tokenize_sents.                                           *)
(***************************************************************************)
InVocabulary(words, dict) ==
    \A p \in DOMAIN words : \E i \in DOMAIN dict : dict[i][1] = words[p]

\* the input pairs all of whose tokens are keys of their vocabulary
Mappable ==
    {i \in DOMAIN args.sentence_pairs :
        /\ InVocabulary(args.sentence_pairs[i].source, args.source_dict)
        /\ InVocabulary(args.sentence_pairs[i].target, args.target_dict)}

\* the k-th mappable pair in input order
NthMappable(k) ==
    CHOOSE i \in Mappable : Cardinality({j \in Mappable : j < i}) = k - 1

IndexSequenceOf(arr, words, dict) ==
    /\ Len(arr) = Len(words)
    /\ \A p \in DOMAIN words : <<words[p], arr[p]>> \in {dict[i] : i \in DOMAIN dict}

TokenizeScenario ==
    [sentence_pairs |-> << SentencePair(<<"a", "b">>, <<"c">>) >>,
     source_dict |-> << <<"a", 0>>, <<"c", 0>> >>,
     target_dict |-> << <<"a", 0>>, <<"c", 0>> >>]

Chars == {"1", "-", " ", "a"}

Digits == {"1"}

IndexError == [kind |-> "IndexError"]

ValueError == [kind |-> "ValueError"]

\* a child element and its text attribute
Element(text) == [is_none |-> FALSE, text |-> text]

EmptyElement == [is_none |-> TRUE, text |-> <<>>]

\* str.split(sep) with a separator: cuts at every occurrence, keeps empty
\* pieces
RECURSIVE split(_, _)
split(text, sep) ==
    IF \A i \in DOMAIN text : text[i] # sep THEN <<text>>
    ELSE LET i == CHOOSE k \in DOMAIN text :
                      text[k] = sep /\ \A j \in 1..(k - 1) : text[j] # sep
         IN  <<SubSeq(text, 1, i - 1)>> \o split(SubSeq(text, i + 1, Len(text)), sep)

\* int(str) on the characters of Chars: digits only and at least one,
\* anything else raises ValueError
IntLiteral(piece) == piece # <<>> /\ \A i \in DOMAIN piece : piece[i] \in Digits

RECURSIVE IntOf(_, _)
IntOf(piece, value) ==
    IF piece = <<>> THEN value ELSE IntOf(Tail(piece), 10 * value + 1)

\* tuple(map(int, entry.split('-')))
IntTuple(entry) ==
    LET pieces == split(entry, "-")
    IN  IF \E i \in DOMAIN pieces : ~IntLiteral(pieces[i]) THEN ValueError
        ELSE [kind |-> "tuple", items |-> [i \in DOMAIN pieces |-> IntOf(pieces[i], 0)]]

\* the two conversion loops: every entry of the list becomes a tuple of ints
IntTuples(list) ==
    IF \E i \in DOMAIN list : IntTuple(list[i]) = ValueError THEN ValueError
    ELSE [kind |-> "list", items |-> [i \in DOMAIN list |-> IntTuple(list[i]).items]]

\* text.split(' ') of a child, [] when the text is None
SplitField(child) == IF child.is_none THEN <<>> ELSE split(child.text, " ")

\* the body of the loop for one block: block[0] .. block[3] are read first,
\* then the sure and the possible entries are converted
ExtractBlock(block) ==
    IF Len(block) < 4 THEN IndexError
    ELSE LET s1 == SplitField(block[1])
             s2 == SplitField(block[2])
             sure_list == IntTuples(SplitField(block[3]))
             possible_list == IntTuples(SplitField(block[4]))
         IN  IF sure_list = ValueError \/ possible_list = ValueError THEN ValueError
             ELSE [kind |-> "block",
                   pair |-> SentencePair(s1, s2),
                   alignment |-> LabeledAlignment(sure_list.items, possible_list.items)]

\* for block in root: the first exception ends the call
RECURSIVE extract_loop(_, _, _)
extract_loop(blocks, sentence_pair_list, labeled_alignment_list) ==
    IF blocks = <<>>
    THEN [kind |-> "return",
          sentence_pairs |-> sentence_pair_list,
          alignments |-> labeled_alignment_list]
    ELSE LET b == ExtractBlock(Head(blocks))
         IN  IF b.kind # "block" THEN b
             ELSE extract_loop(Tail(blocks),
                               Append(sentence_pair_list, b.pair),
                               Append(labeled_alignment_list, b.alignment))

extract_sentences(root) == extract_loop(root, <<>>, <<>>)

Str1(a) == Element(<<a>>)

Str3(a, b, c) == Element(<<a, b, c>>)

\* well-formed blocks that surround the varied one
GoodBlocks ==
    { <<Str3("a", " ", "a"), Str1("a"), Str3("1", "-", "1"), Str3("1", "-", "1")>>,
      <<EmptyElement, EmptyElement, EmptyElement, EmptyElement>> }

SentenceTexts == {EmptyElement, Str3("a", " ", "a")}

OtherAlignmentTexts == {EmptyElement, Str3("1", "-", "1"), Str1("1")}

AlignmentTexts ==
    {EmptyElement} \cup {Element(t) : t \in SeqsUpTo(Chars, MaxText) \ {<<>>}}

\* a corpus of up to MaxBlocks blocks: one block has 0..4 children and an
\* arbitrary text in one of its alignment fields, the others are well-formed
InitParse ==
    /\ \E n \in 0..MaxBlocks :
         \E others \in [1..n -> GoodBlocks],
            j \in 1..n,
            nf \in 0..4,
            st \in SentenceTexts,
            varied \in AlignmentTexts,
            other \in OtherAlignmentTexts,
            swap \in BOOLEAN :
            LET full == IF swap THEN <<st, st, other, varied>>
                        ELSE <<st, st, varied, other>>
            IN  args = [root |-> [i \in 1..n |->
                                    IF i = j THEN SubSeq(full, 1, nf) ELSE others[i]]]
    /\ pc = "start"
    /\ ret = None

CallExtractSentences ==
    /\ pc = "start"
    /\ pc' = "extract_sentences"
    /\ ret' = extract_sentences(args.root)
    /\ UNCHANGED args

NextParse == CallExtractSentences

SpecParse == InitParse /\ [][NextParse]_vars

(***************************************************************************)
(* Properties of extract_sentences.                                        *)
(***************************************************************************)
\* the entry reads <int>-<int>: one hyphen, digits on both sides of it
WellFormedEntry(entry) ==
    \E h \in DOMAIN entry :
        /\ entry[h] = "-"
        /\ h > 1
        /\ h < Len(entry)
        /\ \A i \in DOMAIN entry : i # h => entry[i] \in Digits

\* the entries of an alignment field: its text cut at every space
MalformedField(child) ==
    /\ ~child.is_none
    /\ \E i \in DOMAIN split(child.text, " ") :
          ~WellFormedEntry(split(child.text, " ")[i])

MalformedBlock(block) ==
    \/ Len(block) < 4
    \/ MalformedField(block[3])
    \/ MalformedField(block[4])

MalformedCorpus == \E i \in DOMAIN args.root : MalformedBlock(args.root[i])

\* C10: a corpus with a block of fewer than 4 fields, or with an alignment
\* entry that is not two integers around a single hyphen, makes
\* extract_sentences abort with an error, no result returned.
C10_MalformedAborts ==
    (pc = "extract_sentences" /\ MalformedCorpus) =>
        ret.kind \in {"IndexError", "ValueError"}

====
